---------------------------- MODULE Spec2Model ----------------------------
(***************************************************************************)
(* MemoryFlow: the spaced-repetition core of the tree store                *)
(* (src/hooks/useTree.ts), the FSRS retention model (src/fsrs.ts), the     *)
(* review queue (src/App.tsx) and the calendar projection                  *)
(* (src/utils/scheduler.ts).                                               *)
(*                                                                         *)
(* Numbers.  Timestamps are counted in units of three hours (DAY = 8)      *)
(* instead of milliseconds.  A stored stability or difficulty is a         *)
(* multiple of 1e-4 (computeNextSchedule rounds with toFixed(4)) and is    *)
(* held as the integer number of 1e-4 units (scale U4).  Every other real  *)
(* is fixed point with seven decimals (scale ONE): Math.pow and Math.exp   *)
(* are evaluated by series to about 1e-6, so a value closer than that to a *)
(* rounding boundary may round differently from the IEEE double of the     *)
(* code.                                                                   *)
(***************************************************************************)
EXTENDS Integers, Sequences, FiniteSets, TLC

\* ------------------------------------------------------------------------
\* Fixed-point arithmetic (all intermediate values stay below 2^31)
\* ------------------------------------------------------------------------
U4 == 10000
ONE == 10000000
LIMB == 10000
LN2 == 6931472
ONE_TENTH == 1000000

Min(a, b) == IF a <= b THEN a ELSE b
Max(a, b) == IF a >= b THEN a ELSE b
Abs(a) == IF a >= 0 THEN a ELSE 0 - a

\* The value y, x being evaluated first.  TLC evaluates an argument where it
\* is first used; an operator that names its argument here evaluates it on
\* entry, which keeps the evaluation of nested applications shallow.  The
\* arithmetic below does the same in place: the components of a tuple are
\* evaluated from the left, so << x, y >>[2] is y with x evaluated first.
Then(x, y) == IF x = x THEN y ELSE y

\* a * b / ONE as <<quotient, remainder>>, exact, for 0 <= a, b and a result
\* below 2^31; the operands are split into limbs of LIMB.
MulQR(a, b) ==
  LET ah == a \div LIMB
      al == a % LIMB
      bh == b \div LIMB
      bl == b % LIMB
      p == ah * bl
      q == al * bh
      low == ((p % 1000) + (q % 1000)) * LIMB + al * bl
  IN  << a, b, << ah * bh * 10 + (p \div 1000) + (q \div 1000) + (low \div ONE),
                  low % ONE >> >>[3]

\* <<q, rem>> rounded to the nearest integer, a tie up.
RoundQR(m) == m[1] + (IF 2 * m[2] >= ONE THEN 1 ELSE 0)

\* a * b of two fixed-point reals, rounded to nearest.
Mul(a, b) == << a, b, RoundQR(MulQR(a, b)) >>[3]

\* floor(log2 n) for 1 <= n < 2^31.
Log2(n) == Cardinality({ i \in 1 .. 30 : 2^i <= n })

\* floor(a * b / c) for 0 <= a, 0 <= b < 2^24, 0 < c and a result below
\* 2^31: long multiplication over the six hexadecimal digits of b from the
\* highest down, <<quotient, remainder>> of the digits taken so far in qr.
\* It is exact for a, c < 2^26; larger operands are both halved until they
\* are (a relative error below 2^-25).
Digit(b, i) == (b \div 16^i) % 16

MulDivStep(qr, a, digit, c) ==
  LET t == 16 * qr[2] + digit * a
  IN  << 16 * qr[1] + (t \div c), t % c >>

RECURSIVE MulDivLoop(_, _, _, _, _)
MulDivLoop(qr, a, b, c, i) ==
  IF qr[1] < 0 \/ i < 0 THEN qr
  ELSE MulDivLoop(MulDivStep(qr, a, Digit(b, i), c), a, b, c, i - 1)

Halvings(a, c) == Max(0, Log2(Max(a, c)) - 25)

MulDivHalved(a, b, c, h) ==
  << h, MulDivLoop(<< 0, 0 >>, a \div 2^h, b, c \div 2^h, 5)[1] >>[2]

MulDiv(a, b, c) == << a, c, MulDivHalved(a, b, c, Halvings(a, c)) >>[3]

\* a / b of two fixed-point reals (b > 0).
Div(a, b) == MulDiv(a, ONE, b)

\* e^f for 0 <= f < ln 2: 1 + f(1 + f/2 (1 + f/3 (...))), ten terms, from
\* the innermost out: acc is the value of the bracket that f/n multiplies.
RECURSIVE ExpLoop(_, _, _)
ExpLoop(f, n, acc) ==
  IF acc < 0 \/ n = 0 THEN acc
  ELSE ExpLoop(f, n - 1, ONE + (Mul(f, acc) \div n))

ExpSeries(f) == ExpLoop(f, 10, ONE)

\* e^a for a >= 0: a = k ln 2 + f with 0 <= f < ln 2.
ExpAbs(a) == ExpSeries(a % LN2) * 2^(a \div LN2)

\* Math.exp(y) for a fixed-point real y of either sign.
Exp(y) == IF y >= 0 THEN ExpAbs(y) ELSE Div(ONE, ExpAbs(0 - y))

\* 1 + z2/3 + z2^2/5 + ... (the series of atanh(z)/z in z2 = z^2), eight
\* terms, from the innermost out.
RECURSIVE AtanhLoop(_, _, _)
AtanhLoop(z2, n, acc) ==
  IF acc < 0 \/ n < 0 THEN acc
  ELSE AtanhLoop(z2, n - 1, (ONE \div (2 * n + 1)) + Mul(z2, acc))

AtanhSeries(z2) == AtanhLoop(z2, 7, 0)

\* ln n for an integer 1 <= n < 2^29: n = m * 2^k with 1 <= m < 2 and
\* ln m = 2 atanh(z) for z = (m - 1) / (m + 1) = (n - 2^k) / (n + 2^k).
LnAtanh(z) == 2 * Mul(z, AtanhSeries(Mul(z, z)))
LnNorm(n, k) == k * LN2 + LnAtanh(Div(n - 2^k, n + 2^k))
LnInt(n) == LnNorm(n, Log2(n))

\* ln (n / scale); the result may be negative.
Ln(n, scale) == LnInt(n) - LnInt(scale)

\* e^(l * p) for fixed-point reals l and p of either sign.
ExpProduct(l, p) ==
  IF (l >= 0) = (p >= 0) THEN ExpAbs(Mul(Abs(l), Abs(p)))
  ELSE Div(ONE, ExpAbs(Mul(Abs(l), Abs(p))))

\* Math.pow(n / scale, p) for a fixed-point exponent p of either sign.
Pow(n, scale, p) == << n, ExpProduct(Ln(n, scale), p) >>[2]

\* The product of the fixed-point reals of a sequence, from the left.
RECURSIVE ProductFrom(_, _, _)
ProductFrom(factors, i, acc) ==
  IF acc < 0 \/ i > Len(factors) THEN acc
  ELSE ProductFrom(factors, i + 1, Mul(acc, factors[i]))

Product(factors) == << factors, ProductFrom(factors, 2, factors[1]) >>[2]

\* Multiplication where the left operand may be negative.
SMul(a, b) == IF a >= 0 THEN Mul(a, b) ELSE 0 - Mul(0 - a, b)

\* A real that has not been rounded yet, as <<q, rem>>: q units of 1e-4 plus
\* rem / ONE of one more unit.
FromReal(v) == << v \div 1000, (v % 1000) * 10000 >>

\* parseFloat(x.toFixed(4)): round to the nearest multiple of 1e-4, a tie up.
ToFixed4(x) == RoundQR(x)

\* Math.round of a non-negative real: the nearest integer, a tie up.
Round(x) == (x[1] \div U4) + (IF 2 * (x[1] % U4) >= U4 THEN 1 ELSE 0)

\* ------------------------------------------------------------------------
\* src/fsrs.ts
\* ------------------------------------------------------------------------
\* The FSRS v4.5 weights, each the double nearest its literal cut to seven
\* decimals (the double of 7.19605 lies just below it).
w == << 4025500, 11838500, 31730000, 156910500, 71960499, 5345000, 14604000,
        46000, 15457500, 1192000, 10192500, 19395000, 4100000, 2960500,
        22698000, 2315000, 29898000, 5165500, 6621000 >>
W(i) == w[i + 1]

DECAY == -5000000
FACTOR == 9000000
DAY == 8
MaxInterval == 36500

Ratings == 1 .. 4

\* The largest stability the model stores (40000 days): a larger result of
\* computeNextSchedule is stored as this value.  Every stability of 36500.5
\* or more gives the interval 36500, and no review of the model lowers a
\* stability that has reached this value.
MaxStability == 400000000

\* calculateInterval without its clamp.
calculateIntervalUnclamped(s) ==
  IF s = << 0, 0 >> THEN 0
  ELSE Round(s)

\* Interval = S * 9 * (1/R - 1), rounded and clamped to [1, 36500].  With
\* FACTOR = 0.9 the factor 9 * (1 / FACTOR - 1) is 1 (1.0000000000000004
\* in doubles), so the product is s itself.
calculateInterval(s) ==
  IF s = << 0, 0 >> THEN 0
  ELSE Min(MaxInterval, Max(1, Round(s)))

\* nextDifficulty without its clamp.
nextDifficultyUnclamped(d, rating) ==
  LET nextD == d * 1000 - W(6) * (rating - 3)
  IN  SMul(nextD, ONE - W(7)) + W(7)

\* d is a stored difficulty (scale U4); the result is a real.
nextDifficulty(d, rating) ==
  LET nextD == d * 1000 - W(6) * (rating - 3)
  IN  Min(10 * ONE, Max(ONE, SMul(nextD, ONE - W(7)) + W(7)))

initialStability(rating) == W(rating - 1)

initialDifficulty(rating) ==
  LET d0 == W(4) - (rating - 3) * W(5)
  IN  Min(10 * ONE, Max(ONE, d0))

\* nextStability taking the forgetting branch for every rating.
nextStabilityForgets(s, d, r, rating) ==
  FromReal(Product(<< W(11), Pow(d, U4, 0 - W(12)), Pow(s + U4, U4, W(13)),
                      Exp(Mul(W(14), ONE - r)) >>))

\* s and d are the stored stability and difficulty (scale U4), r a real;
\* the result is an unrounded real <<q, rem>>.
nextStability(s, d, r, rating) ==
  IF rating = 1
  THEN FromReal(Product(<< W(11), Pow(d, U4, 0 - W(12)), Pow(s + U4, U4, W(13)),
                           Exp(Mul(W(14), ONE - r)) >>))
  ELSE LET hardPenalty == IF rating = 2 THEN W(15) ELSE ONE
           easyBonus == IF rating = 4 THEN W(16) ELSE ONE
       IN  MulQR(s, ONE + Product(<< Exp(W(8)), 11 * ONE - d * 1000,
                                     Pow(s, U4, 0 - W(9)),
                                     Exp(Mul(W(10), ONE - r)) - ONE,
                                     hardPenalty, easyBonus >>))

\* s is a stored stability, elapsedDays a number of days as <<q, rem>>: the
\* quotient FACTOR * elapsedDays / s is the sum of the two parts' quotients.
currentRetrievability(s, elapsedDays) ==
  IF s = 0 THEN 0
  ELSE Pow(ONE + MulDiv(elapsedDays[1], FACTOR, s)
               + (MulDiv(elapsedDays[2], FACTOR \div ONE_TENTH, s) \div 10),
           ONE, DECAY)

\* Line 98 with the distance between the two instants in place of the
\* clamped difference.
ElapsedDaysUnsigned(current, now) ==
  LET dt == Abs(now - current.lastReview)
      units == (dt % DAY) * U4
  IN  << (dt \div DAY) * U4 + (units \div DAY), (units % DAY) * (ONE \div DAY) >>

\* Line 98: (now - lastReview) / DAY, clamped at 0, as <<q, rem>>.
ElapsedDays(current, now) ==
  LET dt == Max(0, now - current.lastReview)
      units == (dt % DAY) * U4
  IN  << (dt \div DAY) * U4 + (units \div DAY), (units % DAY) * (ONE \div DAY) >>

\* The values returned, the interval taken from the rounded stability.
SchedulingInfoOfStored(nextS, nextD) ==
  [ s |-> Min(MaxStability, ToFixed4(nextS)),
    d |-> ToFixed4(FromReal(nextD)),
    interval |-> calculateInterval(<< ToFixed4(nextS), 0 >>) ]

\* Lines 116-120: the values returned for the unrounded nextS and nextD.
SchedulingInfo(nextS, nextD) ==
  [ s |-> Min(MaxStability, ToFixed4(nextS)),
    d |-> ToFixed4(FromReal(nextD)),
    interval |-> calculateInterval(nextS) ]

\* w[i] is a number: i is an index of the array.  The lookup of any other
\* index is undefined.
Defined(i) == i + 1 \in DOMAIN w

\* undefined.toFixed(4) at line 117 throws.
TypeError == [ error |-> "TypeError" ]

\* Lines 100-120: the schedule for the elapsedDays of line 98.  A first
\* review with a rating whose lookup at line 48 is undefined throws at line
\* 117.
Schedule(current, rating, elapsedDays) ==
  LET first == current.s = 0
      r == currentRetrievability(current.s, elapsedDays)
      nextS == IF first THEN FromReal(initialStability(rating))
               ELSE nextStability(current.s, current.d, r, rating)
      nextD == IF first THEN initialDifficulty(rating)
               ELSE nextDifficulty(current.d, rating)
  IN  IF first /\ ~Defined(rating - 1) THEN TypeError
      ELSE << r, nextS, SchedulingInfo(nextS, nextD) >>[3]

computeNextSchedule(current, rating, now) ==
  Schedule(current, rating, ElapsedDays(current, now))

\* ------------------------------------------------------------------------
\* State
\* ------------------------------------------------------------------------
VARIABLES
  nodes,     \* useTree: the NodeMap, id -> Node
  now,       \* Date.now()
  uuid,      \* the number of crypto.randomUUID() values drawn so far
  \* generateReviewSchedule (src/utils/scheduler.ts), one call in progress:
  pc,                       \* "idle", "for", "while" or "done"
  daysToProject,            \* its second parameter
  schedule,                 \* CalendarData: dateKey -> events
  nodeIndex,                \* the position of the for loop in allNodes
  simulatedState,
  lastSimulatedReviewDate,
  safetyCounter,
  \* computeNextSchedule (src/fsrs.ts) called on its own:
  fsrsData,                 \* the s and d of the FSRSData it is called with
  reviewCount,              \* the number of calls so far
  lastCall                  \* the arguments and the result of the last call

\* Bounds of the model.
StartTime == 16        \* Date.now() when the application loads (day 2, 00:00)
TickStep == 5          \* the clock advances in steps of this many units
MaxNow == 26           \* the clock stops here
MaxUuid == 2           \* crypto.randomUUID() is drawn at most this often
FarHorizon == 13400000 \* a horizon in days no chain of 365 intervals reaches

NULL == "null"

\* INITIAL_DATA (src/unnamed/part_005).  node-101 is due a little before
\* the load (10 s in the code, one time unit here).
INITIAL_DATA ==
  [ id \in {"root", "subject-1", "subject-2", "node-101"} |->
      [ id |-> id,
        parentId |-> CASE id = "root" -> NULL
                       [] id = "node-101" -> "subject-1"
                       [] OTHER -> "root",
        title |-> id,
        children |-> CASE id = "root" -> << "subject-1", "subject-2" >>
                       [] id = "subject-1" -> << "node-101" >>
                       [] OTHER -> << >>,
        isExpanded |-> id \in {"root", "subject-1"},
        fsrs |-> [ state |-> IF id = "node-101" THEN "new" ELSE "suspended",
                   s |-> 0, d |-> 0,
                   due |-> IF id = "node-101" THEN StartTime - 1 ELSE 0,
                   lastReview |-> 0 ],
        logs |-> << >> ] ]

\* The value of the k-th crypto.randomUUID().
Uuid(k) == "u" \o ToString(k)

\* Object.values(nodes): the keys in insertion order.
KeyOrder == << "root", "subject-1", "subject-2", "node-101" >>
            \o [ k \in 1 .. MaxUuid + 1 |-> Uuid(k) ]
Keys(ns) == SelectSeq(KeyOrder, LAMBDA k : k \in DOMAIN ns)

\* ------------------------------------------------------------------------
\* Replay (recalculateFSRS of src/fsrs.ts, which is not among the sources:
\* modelled from sections 4.2 and 4.3 of the specification)
\* ------------------------------------------------------------------------
\* The entries sorted ascending by reviewDate, ties in insertion order.
RECURSIVE InsertLog(_, _)
InsertLog(sorted, log) ==
  IF sorted = << >> THEN << log >>
  ELSE IF sorted[Len(sorted)].reviewDate <= log.reviewDate
       THEN Append(sorted, log)
       ELSE Append(InsertLog(SubSeq(sorted, 1, Len(sorted) - 1), log),
                   sorted[Len(sorted)])

RECURSIVE SortLogs(_)
SortLogs(logs) ==
  IF logs = << >> THEN << >>
  ELSE InsertLog(SortLogs(SubSeq(logs, 1, Len(logs) - 1)), logs[Len(logs)])

ZeroState(fallbackDue) ==
  [ state |-> "new", s |-> 0, d |-> 0, due |-> fallbackDue, lastReview |-> 0 ]

\* The state after a review at t with the transition's result res.
Reviewed(res, t) ==
  Then(res, [ state |-> "review", s |-> res.s, d |-> res.d,
              due |-> t + res.interval * DAY, lastReview |-> t ])

\* One fold step: the transition at the entry's timestamp.
ReplayStep(cur, log) ==
  Reviewed(computeNextSchedule(cur, log.rating, log.reviewDate), log.reviewDate)

RECURSIVE ReplayFrom(_, _, _)
ReplayFrom(cur, sorted, i) ==
  IF i > Len(sorted) \/ cur.s < 0 THEN cur
  ELSE ReplayFrom(ReplayStep(cur, sorted[i]), sorted, i + 1)

recalculateFSRS(logs, fallbackDue) ==
  ReplayFrom(ZeroState(fallbackDue), SortLogs(logs), 1)

\* ------------------------------------------------------------------------
\* src/hooks/useTree.ts
\* ------------------------------------------------------------------------
\* new Date(now).getHours()
Hours(t) == ((t % DAY) * 24) \div DAY

\* addNode putting a planned node straight into the learning state.
addNodeLearning(ns, parentId, title, mode, newId, t) ==
  LET isLateNight == Hours(t) < 3
      initialDue == IF isLateNight THEN t ELSE t + DAY
      newNode == [ id |-> newId, parentId |-> parentId, title |-> title,
                   children |-> << >>, isExpanded |-> FALSE,
                   fsrs |-> [ state |-> IF mode = "plan" THEN "learning"
                                        ELSE "suspended",
                              s |-> 0, d |-> 0,
                              due |-> IF mode = "plan" THEN initialDue ELSE 0,
                              lastReview |-> 0 ],
                   logs |-> << >> ]
  IN  IF parentId \in DOMAIN ns
      THEN [ k \in DOMAIN ns \cup {newId} |->
               IF k = newId THEN newNode
               ELSE IF k = parentId
                    THEN [ ns[k] EXCEPT !.children = Append(@, newId),
                                        !.isExpanded = TRUE ]
                    ELSE ns[k] ]
      ELSE ns

addNode(ns, parentId, title, mode, newId, t) ==
  LET isLateNight == Hours(t) < 3
      initialDue == IF isLateNight THEN t ELSE t + DAY
      newNode == [ id |-> newId, parentId |-> parentId, title |-> title,
                   children |-> << >>, isExpanded |-> FALSE,
                   fsrs |-> [ state |-> IF mode = "plan" THEN "new" ELSE "suspended",
                              s |-> 0, d |-> 0,
                              due |-> IF mode = "plan" THEN initialDue ELSE 0,
                              lastReview |-> 0 ],
                   logs |-> << >> ]
  IN  IF parentId \in DOMAIN ns
      THEN [ k \in DOMAIN ns \cup {newId} |->
               IF k = newId THEN newNode
               ELSE IF k = parentId
                    THEN [ ns[k] EXCEPT !.children = Append(@, newId),
                                        !.isExpanded = TRUE ]
                    ELSE ns[k] ]
      ELSE ns

\* updateNodeTitle replacing the node by a fresh one with the new title.
updateNodeTitleFresh(ns, id, title) ==
  IF id \notin DOMAIN ns THEN ns
  ELSE [ ns EXCEPT ![id] = [ @ EXCEPT !.title = title, !.logs = << >>,
                                      !.fsrs = ZeroState(0) ] ]

updateNodeTitle(ns, id, title) ==
  IF id \notin DOMAIN ns THEN ns
  ELSE [ ns EXCEPT ![id].title = title ]

\* Lines 153-163: the ids the stack walk collects.  The last element of the
\* stack is popped; the children of the popped node are pushed in order.
RECURSIVE CollectIds(_, _, _)
CollectIds(newNodes, stack, idsToDelete) ==
  IF stack = << >> THEN idsToDelete
  ELSE LET currentId == stack[Len(stack)]
           popped == SubSeq(stack, 1, Len(stack) - 1)
       IN  CollectIds(newNodes,
                      IF currentId \in DOMAIN newNodes
                      THEN popped \o newNodes[currentId].children
                      ELSE popped,
                      idsToDelete \cup {currentId})

\* Lines 146-151: the target is taken out of its parent's children.
Detached(ns, targetId) ==
  LET parentId == ns[targetId].parentId
  IN  IF parentId # NULL /\ parentId \in DOMAIN ns
      THEN [ ns EXCEPT ![parentId].children =
                         SelectSeq(@, LAMBDA childId : childId # targetId) ]
      ELSE ns

\* Line 165: the collected ids are deleted from the map.
Without(newNodes, idsToDelete) ==
  [ k \in DOMAIN newNodes \ idsToDelete |-> newNodes[k] ]

\* deleteNode deleting the target alone.
deleteNodeShallow(ns, nodeId) ==
  IF nodeId \notin DOMAIN ns THEN ns
  ELSE Without(Detached(ns, nodeId), {nodeId})

deleteNode(ns, nodeId) ==
  IF nodeId \notin DOMAIN ns THEN ns
  ELSE Without(Detached(ns, nodeId),
               CollectIds(Detached(ns, nodeId), << nodeId >>, {}))

toggleExpand(ns, id) ==
  IF id \notin DOMAIN ns THEN ns
  ELSE [ ns EXCEPT ![id].isExpanded = ~@ ]

\* Array.prototype.indexOf, counted from 1: 0 when x is not in the array.
indexOf(array, x) ==
  IF \E i \in DOMAIN array : array[i] = x
  THEN CHOOSE i \in DOMAIN array :
         array[i] = x /\ \A j \in 1 .. i - 1 : array[j] # x
  ELSE 0

\* array.splice(insertIndex, 0, x), insertIndex counted from 1.
splice(array, insertIndex, x) ==
  SubSeq(array, 1, insertIndex - 1) \o << x >>
    \o SubSeq(array, insertIndex, Len(array))

\* moveNode inserting the source without taking it out first.
moveNodeDuplicating(ns, sourceId, targetId, position) ==
  IF \/ sourceId \notin DOMAIN ns
     \/ targetId \notin DOMAIN ns
     \/ ns[sourceId].parentId # ns[targetId].parentId
     \/ ns[sourceId].parentId = NULL
  THEN ns
  ELSE LET parentId == ns[sourceId].parentId
           newChildren == ns[parentId].children
           targetIndex == indexOf(newChildren, targetId)
           insertIndex == IF position = "top" THEN targetIndex
                          ELSE targetIndex + 1
       IN  IF targetIndex = 0 THEN ns
           ELSE [ ns EXCEPT ![parentId].children =
                              splice(newChildren, insertIndex, sourceId) ]

\* Only siblings are reordered.  The parent of two nodes of the map is in
\* the map (line 188 reads it without a test).
moveNode(ns, sourceId, targetId, position) ==
  IF \/ sourceId \notin DOMAIN ns
     \/ targetId \notin DOMAIN ns
     \/ ns[sourceId].parentId # ns[targetId].parentId
     \/ ns[sourceId].parentId = NULL
  THEN ns
  ELSE LET parentId == ns[sourceId].parentId
           newChildren == SelectSeq(ns[parentId].children,
                                    LAMBDA id : id # sourceId)
           targetIndex == indexOf(newChildren, targetId)
           insertIndex == IF position = "top" THEN targetIndex
                          ELSE targetIndex + 1
       IN  IF targetIndex = 0 THEN ns
           ELSE [ ns EXCEPT ![parentId].children =
                              splice(newChildren, insertIndex, sourceId) ]

\* reviewComplete counting the interval from the previous due date.
reviewCompleteFromDue(ns, id, s, d, interval, rating, logId, t) ==
  IF id \notin DOMAIN ns THEN ns
  ELSE LET newLog == [ id |-> logId, rating |-> rating, reviewDate |-> t ]
       IN  [ ns EXCEPT ![id] =
               [ @ EXCEPT !.logs = Append(@, newLog),
                          !.fsrs = [ state |-> "review", s |-> s, d |-> d,
                                     lastReview |-> t,
                                     due |-> ns[id].fsrs.due + interval * DAY ] ] ]

\* reviewComplete adding the interval to now as it is, not as days.
reviewCompleteIntervalAsTime(ns, id, s, d, interval, rating, logId, t) ==
  IF id \notin DOMAIN ns THEN ns
  ELSE LET newLog == [ id |-> logId, rating |-> rating, reviewDate |-> t ]
       IN  [ ns EXCEPT ![id] =
               [ @ EXCEPT !.logs = Append(@, newLog),
                          !.fsrs = [ state |-> "review", s |-> s, d |-> d,
                                     lastReview |-> t,
                                     due |-> t + interval ] ] ]

\* Standard review (today): the caller passes s, d and interval.
reviewComplete(ns, id, s, d, interval, rating, logId, t) ==
  IF id \notin DOMAIN ns THEN ns
  ELSE LET newLog == [ id |-> logId, rating |-> rating, reviewDate |-> t ]
       IN  [ ns EXCEPT ![id] =
               [ @ EXCEPT !.logs = Append(@, newLog),
                          !.fsrs = [ state |-> "review", s |-> s, d |-> d,
                                     lastReview |-> t,
                                     due |-> t + interval * DAY ] ] ]

\* addRetroactiveLog folding the ledger in insertion order.
addRetroactiveLogUnsorted(ns, id, rating, date, logId) ==
  IF id \notin DOMAIN ns THEN ns
  ELSE LET newLog == [ id |-> logId, rating |-> rating, reviewDate |-> date ]
           updatedLogs == Append(ns[id].logs, newLog)
       IN  [ ns EXCEPT ![id] =
               [ @ EXCEPT !.logs = updatedLogs,
                          !.fsrs = ReplayFrom(ZeroState(ns[id].fsrs.due),
                                              updatedLogs, 1) ] ]

\* addRetroactiveLog applying one transition to the current state.
addRetroactiveLogFastPath(ns, id, rating, date, logId) ==
  IF id \notin DOMAIN ns THEN ns
  ELSE LET newLog == [ id |-> logId, rating |-> rating, reviewDate |-> date ]
       IN  [ ns EXCEPT ![id] =
               [ @ EXCEPT !.logs = Append(@, newLog),
                          !.fsrs = ReplayStep(ns[id].fsrs, newLog) ] ]

addRetroactiveLog(ns, id, rating, date, logId) ==
  IF id \notin DOMAIN ns THEN ns
  ELSE LET newLog == [ id |-> logId, rating |-> rating, reviewDate |-> date ]
           updatedLogs == Append(ns[id].logs, newLog)
           recalculatedState == recalculateFSRS(updatedLogs, ns[id].fsrs.due)
       IN  [ ns EXCEPT ![id] = [ @ EXCEPT !.logs = updatedLogs,
                                          !.fsrs = recalculatedState ] ]

\* Lines 273-278 of deleteLog: an empty ledger resets the state.
Reset(recalculatedState, updatedLogs, t) ==
  IF Len(updatedLogs) = 0
  THEN [ recalculatedState EXCEPT !.state = "new", !.s = 0, !.d = 0, !.due = t ]
  ELSE recalculatedState

\* deleteLog removing the entry and leaving the scheduling state alone.
deleteLogKeepsState(ns, nodeId, logId, t) ==
  IF nodeId \notin DOMAIN ns THEN ns
  ELSE [ ns EXCEPT ![nodeId].logs = SelectSeq(@, LAMBDA l : l.id # logId) ]

deleteLog(ns, nodeId, logId, t) ==
  IF nodeId \notin DOMAIN ns THEN ns
  ELSE LET updatedLogs == SelectSeq(ns[nodeId].logs, LAMBDA l : l.id # logId)
           recalculatedState == recalculateFSRS(updatedLogs, t)
       IN  [ ns EXCEPT ![nodeId] =
               [ @ EXCEPT !.logs = updatedLogs,
                          !.fsrs = Reset(recalculatedState, updatedLogs, t) ] ]

\* ReviewDeck.handleSwipe, steps 2 and 3: the schedule is computed from the
\* node's current state at Date.now() and handed to reviewComplete.
onReviewComplete(ns, id, result, rating, logId, t) ==
  Then(result, reviewComplete(ns, id, result.s, result.d, result.interval,
                              rating, logId, t))

review(ns, id, rating, logId, t) ==
  onReviewComplete(ns, id, computeNextSchedule(ns[id].fsrs, rating, t), rating,
                   logId, t)

\* ------------------------------------------------------------------------
\* src/App.tsx: the review queue
\* ------------------------------------------------------------------------
\* Array.prototype.sort by due (stable): ids is sorted, id is inserted
\* behind every element that is not due later.
RECURSIVE InsertByDue(_, _, _)
InsertByDue(ns, ids, id) ==
  IF ids = << >> THEN << id >>
  ELSE IF ns[ids[Len(ids)]].fsrs.due - ns[id].fsrs.due <= 0
       THEN Append(ids, id)
       ELSE Append(InsertByDue(ns, SubSeq(ids, 1, Len(ids) - 1), id),
                   ids[Len(ids)])

RECURSIVE SortByDue(_, _)
SortByDue(ns, ids) ==
  IF ids = << >> THEN << >>
  ELSE InsertByDue(ns, SortByDue(ns, SubSeq(ids, 1, Len(ids) - 1)),
                   ids[Len(ids)])

\* The queue without its sort.
reviewQueueUnsorted(ns, t) ==
  SelectSeq(Keys(ns), LAMBDA k : /\ ns[k].parentId # NULL
                                 /\ ns[k].fsrs.state # "suspended"
                                 /\ ns[k].fsrs.due <= t)

\* The queue as the sequence of the ids of its nodes.
reviewQueue(ns, t) ==
  SortByDue(ns, SelectSeq(Keys(ns), LAMBDA k : /\ ns[k].parentId # NULL
                                               /\ ns[k].fsrs.state # "suspended"
                                               /\ ns[k].fsrs.due <= t))

\* ------------------------------------------------------------------------
\* src/utils/scheduler.ts: generateReviewSchedule
\* ------------------------------------------------------------------------
MaxSimulations == 365

\* format(timestamp, 'yyyy-MM-dd'): the number of the local day.
DateKey(timestamp) == timestamp \div DAY

addToSchedule(sched, timestamp, event) ==
  LET dateKey == DateKey(timestamp)
  IN  IF dateKey \in DOMAIN sched
      THEN [ sched EXCEPT ![dateKey] = Append(@, event) ]
      ELSE [ k \in DOMAIN sched \cup {dateKey} |->
               IF k = dateKey THEN << event >> ELSE sched[k] ]

\* The titles of the model in the order of String.prototype.localeCompare
\* (a node of the initial data is titled by its id here).
Titles == << "node-101", "root", "subject-1", "subject-2", "t" >>
TitleRank(title) == CHOOSE i \in 1 .. Len(Titles) : Titles[i] = title
localeCompare(a, b) == TitleRank(a) - TitleRank(b)

\* The comparator of the final sort: confirmed first, then by title.
CompareEvents(a, b) ==
  IF a.type # b.type THEN (IF a.type = "confirmed" THEN -1 ELSE 1)
  ELSE localeCompare(a.title, b.title)

RECURSIVE InsertEvent(_, _)
InsertEvent(events, e) ==
  IF events = << >> THEN << e >>
  ELSE IF CompareEvents(events[Len(events)], e) <= 0
       THEN Append(events, e)
       ELSE Append(InsertEvent(SubSeq(events, 1, Len(events) - 1), e),
                   events[Len(events)])

RECURSIVE SortEvents(_)
SortEvents(events) ==
  IF events = << >> THEN << >>
  ELSE InsertEvent(SortEvents(SubSeq(events, 1, Len(events) - 1)),
                   events[Len(events)])

\* ------------------------------------------------------------------------
\* Actions: one per operation of the tree context
\* ------------------------------------------------------------------------
projection == << pc, daysToProject, schedule, nodeIndex, simulatedState,
                 lastSimulatedReviewDate, safetyCounter >>
retention == << fsrsData, reviewCount, lastCall >>
vars == << nodes, now, uuid, pc, daysToProject, schedule, nodeIndex,
           simulatedState, lastSimulatedReviewDate, safetyCounter,
           fsrsData, reviewCount, lastCall >>

\* No projection is in progress.
NoProjection ==
  /\ pc = "idle"
  /\ daysToProject = 0
  /\ schedule = << >>
  /\ nodeIndex = 1
  /\ simulatedState = ZeroState(0)
  /\ lastSimulatedReviewDate = 0
  /\ safetyCounter = 0

\* computeNextSchedule has not been called on its own.
NoCall == [ rating |-> 0 ]
NoRetention ==
  /\ fsrsData = [ s |-> 0, d |-> 0 ]
  /\ reviewCount = 0
  /\ lastCall = NoCall

Init ==
  /\ nodes = INITIAL_DATA
  /\ now = StartTime
  /\ uuid = 0
  /\ NoProjection
  /\ NoRetention

\* Time passes.
Tick ==
  /\ pc = "idle"
  /\ now + TickStep <= MaxNow
  /\ now' = now + TickStep
  /\ UNCHANGED << nodes, uuid, projection, retention >>

Modes == {"store", "plan"}

AddNode(parentId, title, mode) ==
  /\ pc = "idle"
  /\ uuid < MaxUuid
  /\ uuid' = uuid + 1
  /\ nodes' = addNode(nodes, parentId, title, mode, Uuid(uuid + 1), now)
  /\ UNCHANGED << now, projection, retention >>

\* reviewComplete as ReviewDeck.handleSwipe calls it, for any node of the
\* map: the hook itself only requires that the node exists.
ReviewComplete(id, rating) ==
  /\ pc = "idle"
  /\ uuid < MaxUuid
  /\ id \in DOMAIN nodes
  /\ nodes' = review(nodes, id, rating, Uuid(uuid + 1), now)
  /\ uuid' = uuid + 1
  /\ UNCHANGED << now, projection, retention >>

\* HistoryModal.handleAddLog: an entry on another day than today carries
\* 09:00 of that day (day 1 lies before the load, day 3 after MaxNow).
RetroDays == {1, 3}
RetroDates == { day * DAY + (9 * DAY) \div 24 : day \in RetroDays }
RetroRatings == {1, 3}

AddRetroactiveLog(id, rating, date) ==
  /\ pc = "idle"
  /\ uuid < MaxUuid
  /\ id \in DOMAIN nodes
  /\ nodes' = addRetroactiveLog(nodes, id, rating, date, Uuid(uuid + 1))
  /\ uuid' = uuid + 1
  /\ UNCHANGED << now, projection, retention >>

LogIds(id) == { nodes[id].logs[i].id : i \in 1 .. Len(nodes[id].logs) }

DeleteLog(nodeId, logId) ==
  /\ pc = "idle"
  /\ nodeId \in DOMAIN nodes
  /\ nodes' = deleteLog(nodes, nodeId, logId, now)
  /\ UNCHANGED << now, uuid, projection, retention >>

\* The nodes whose ledger the model edits: the root, the due leaf of the
\* initial data and every added node.
LedgerIds == DOMAIN nodes \ {"subject-1", "subject-2"}

Next ==
  \/ Tick
  \/ \E mode \in Modes : AddNode("root", "t", mode)
  \/ \E id \in LedgerIds, rating \in Ratings : ReviewComplete(id, rating)
  \/ \E id \in LedgerIds, rating \in RetroRatings, date \in RetroDates :
       AddRetroactiveLog(id, rating, date)
  \/ \E nodeId \in LedgerIds :
       \E logId \in LogIds(nodeId) : DeleteLog(nodeId, logId)

Spec == Init /\ [][Next]_vars

\* ------------------------------------------------------------------------
\* Actions of one call of generateReviewSchedule(nodes, daysToProject)
\* ------------------------------------------------------------------------
allNodes == Keys(nodes)
rangeEnd == now + daysToProject * DAY

\* Lines 19-32: the call starts with an empty schedule.
Generate(days) ==
  /\ pc = "idle"
  /\ pc' = "for"
  /\ daysToProject' = days
  /\ schedule' = << >>
  /\ nodeIndex' = 1
  /\ UNCHANGED << nodes, now, uuid, simulatedState, lastSimulatedReviewDate,
                  safetyCounter, retention >>

\* The skip test on the id alone.
SkippedRootOnly(node) == node.id = "root"

\* Line 35: the nodes the projection skips.
Skipped(node) ==
  node.id = "root" \/ node.fsrs.state = "suspended" \/ node.parentId = NULL

\* The range test on the clock instead of the due date.
WithinRangeFromNow(currentDue) == now <= rangeEnd

\* Line 50: the confirmed review lies within the viewing range.
WithinRange(currentDue) == currentDue <= rangeEnd

\* The confirmed event dated with the day the review is assumed to happen.
ConfirmedEventToday(node, currentDue) ==
  [ nodeId |-> node.id, title |-> node.title, date |-> Max(currentDue, now),
    type |-> "confirmed", predictedInterval |-> 0 ]

\* Lines 51-56: the confirmed event (it has no predictedInterval; the model
\* holds 0).
ConfirmedEvent(node, currentDue) ==
  [ nodeId |-> node.id, title |-> node.title, date |-> currentDue,
    type |-> "confirmed", predictedInterval |-> 0 ]

\* The simulation starting at the due date, overdue or not.
effectiveReviewDateStale(currentDue) == currentDue

\* Line 44: an overdue card is assumed to be reviewed today, any other on
\* time.
effectiveReviewDate(currentDue) == Max(currentDue, now)

\* Lines 34-71: one pass of the for loop up to the simulation loop.
ProjectNode ==
  /\ pc = "for"
  /\ nodeIndex <= Len(allNodes)
  /\ LET node == nodes[allNodes[nodeIndex]]
         currentDue == node.fsrs.due
     IN  IF ~Skipped(node) /\ WithinRange(currentDue)
         THEN /\ schedule' = addToSchedule(schedule, currentDue,
                                            ConfirmedEvent(node, currentDue))
              /\ simulatedState' = node.fsrs
              /\ lastSimulatedReviewDate' = effectiveReviewDate(currentDue)
              /\ safetyCounter' = 0
              /\ pc' = "while"
              /\ UNCHANGED nodeIndex
         ELSE /\ nodeIndex' = nodeIndex + 1
              /\ UNCHANGED << pc, schedule, simulatedState,
                              lastSimulatedReviewDate, safetyCounter >>
  /\ UNCHANGED << nodes, now, uuid, daysToProject, retention >>

\* The loop condition with the cap off by one.
LoopContinuesOffByOne == safetyCounter <= MaxSimulations

\* Line 76: the condition of the simulation loop.
LoopContinues == safetyCounter < MaxSimulations

\* The window test on the review just simulated instead of the next one.
OutsideWindowStale(nextReviewTimestamp) == lastSimulatedReviewDate > rangeEnd

\* Line 88: the next review falls outside the projection window.
OutsideWindow(nextReviewTimestamp) == nextReviewTimestamp > rangeEnd

\* Iteration writing the simulated state back to the node.
IterationWritesBack(simulationResult) ==
  /\ pc = "while"
  /\ LET node == nodes[allNodes[nodeIndex]]
         nextIntervalDays == simulationResult.interval
         nextReviewTimestamp == lastSimulatedReviewDate + nextIntervalDays * DAY
     IN  IF LoopContinues /\ ~OutsideWindow(nextReviewTimestamp)
         THEN /\ schedule' = addToSchedule(schedule, nextReviewTimestamp,
                               [ nodeId |-> node.id, title |-> node.title,
                                 date |-> nextReviewTimestamp,
                                 type |-> "projected",
                                 predictedInterval |-> nextIntervalDays ])
              /\ simulatedState' = [ state |-> "review",
                                     s |-> simulationResult.s,
                                     d |-> simulationResult.d,
                                     lastReview |-> lastSimulatedReviewDate,
                                     due |-> nextReviewTimestamp ]
              /\ nodes' = [ nodes EXCEPT ![node.id].fsrs = simulatedState' ]
              /\ lastSimulatedReviewDate' = nextReviewTimestamp
              /\ safetyCounter' = safetyCounter + 1
              /\ UNCHANGED << pc, nodeIndex >>
         ELSE /\ pc' = "for"
              /\ nodeIndex' = nodeIndex + 1
              /\ UNCHANGED << nodes, schedule, simulatedState,
                              lastSimulatedReviewDate, safetyCounter >>
  /\ UNCHANGED << now, uuid, daysToProject, retention >>

\* Lines 76-113: one evaluation of the loop condition and one iteration,
\* simulationResult being the simulated 'Good' review.
Iteration(simulationResult) ==
  /\ pc = "while"
  /\ LET node == nodes[allNodes[nodeIndex]]
         nextIntervalDays == simulationResult.interval
         nextReviewTimestamp == lastSimulatedReviewDate + nextIntervalDays * DAY
     IN  IF LoopContinues /\ ~OutsideWindow(nextReviewTimestamp)
         THEN /\ schedule' = addToSchedule(schedule, nextReviewTimestamp,
                               [ nodeId |-> node.id, title |-> node.title,
                                 date |-> nextReviewTimestamp,
                                 type |-> "projected",
                                 predictedInterval |-> nextIntervalDays ])
              /\ simulatedState' = [ state |-> "review",
                                     s |-> simulationResult.s,
                                     d |-> simulationResult.d,
                                     lastReview |-> lastSimulatedReviewDate,
                                     due |-> nextReviewTimestamp ]
              /\ lastSimulatedReviewDate' = nextReviewTimestamp
              /\ safetyCounter' = safetyCounter + 1
              /\ UNCHANGED << pc, nodeIndex >>
         ELSE /\ pc' = "for"
              /\ nodeIndex' = nodeIndex + 1
              /\ UNCHANGED << schedule, simulatedState,
                              lastSimulatedReviewDate, safetyCounter >>
  /\ UNCHANGED << nodes, now, uuid, daysToProject, retention >>

Simulate ==
  Iteration(computeNextSchedule(simulatedState, 3, lastSimulatedReviewDate))

\* Lines 116-124: the events of every day are sorted and the schedule is
\* returned.
Finish ==
  /\ pc = "for"
  /\ nodeIndex > Len(allNodes)
  /\ schedule' = [ dateKey \in DOMAIN schedule |-> SortEvents(schedule[dateKey]) ]
  /\ pc' = "done"
  /\ UNCHANGED << nodes, now, uuid, daysToProject, nodeIndex, simulatedState,
                  lastSimulatedReviewDate, safetyCounter, retention >>

\* CalendarView offers 7, 14 and 30 days; the parameter is any number.
Horizons == {0 - 1, 0, 3, 14, FarHorizon}

\* Node maps the tree context reaches at StartTime, each with the number of
\* ids drawn for it.
ProjectionInputs ==
  { [ nodes |-> INITIAL_DATA, uuid |-> 0 ],
    [ nodes |-> review(INITIAL_DATA, "node-101", 3, Uuid(1), StartTime),
      uuid |-> 1 ],
    [ nodes |-> review(INITIAL_DATA, "subject-2", 1, Uuid(1), StartTime),
      uuid |-> 1 ],
    [ nodes |-> addNode(addRetroactiveLog(INITIAL_DATA, "root", 3,
                                          StartTime - DAY, Uuid(1)),
                        "root", "t", "plan", Uuid(2), StartTime),
      uuid |-> 2 ],
    [ nodes |-> review(review(INITIAL_DATA, "node-101", 4, Uuid(1), StartTime),
                       "subject-2", 3, Uuid(2), StartTime),
      uuid |-> 2 ] }

InitProjection ==
  /\ \E input \in ProjectionInputs : nodes = input.nodes /\ uuid = input.uuid
  /\ now \in {StartTime, MaxNow}
  /\ NoProjection
  /\ NoRetention

NextProjection ==
  \/ \E days \in Horizons : Generate(days)
  \/ ProjectNode
  \/ Simulate
  \/ Finish

SpecProjection == InitProjection /\ [][NextProjection]_vars

\* ------------------------------------------------------------------------
\* Actions of computeNextSchedule called on its own
\* ------------------------------------------------------------------------
MsPerDay == 86400000

\* Line 98 for a difference of ms milliseconds (below 200 s) and for one of
\* whole days.
Millis(ms) ==
  << (ms * U4) \div MsPerDay, MulDiv((ms * U4) % MsPerDay, ONE, MsPerDay) >>
Days(n) == << n * U4, 0 >>

\* sec seconds as a number of days.
SecPerDay == 86400
Seconds(sec) ==
  << (sec * U4) \div SecPerDay, MulDiv((sec * U4) % SecPerDay, ONE, SecPerDay) >>

\* The times between two reviews: none, 200 ms, a minute, 12 h 42 min 4 s
\* and 30 days.
Elapsed ==
  { Millis(0), Millis(200), Millis(60000), Seconds(45724), Days(30) }

\* The type Rating, and numbers outside it (the type is not checked when the
\* program runs).
AnyRating == 0 .. 5

\* The s and d after the reviews with these ratings, the first of a new
\* item, each of the others on the day the one before made the item due.
RECURSIVE ReviewedOnTime(_, _, _)
ReviewedOnTime(result, ratings, i) ==
  IF result.s < 0 \/ i > Len(ratings) THEN [ s |-> result.s, d |-> result.d ]
  ELSE ReviewedOnTime(Schedule(result, ratings[i], Days(result.interval)),
                      ratings, i + 1)

Histories == { << >>, << 2, 2, 2 >>, << 4, 4, 4 >>, << 4, 4, 4, 4 >> }

\* The scheduling states the calls start from: the zero state, a hard item
\* (S = 3.58, D = 10), an easy one (S = 3543, D = 3.7) and one whose
\* stability has passed MaxInterval (S = 47707 in the code, D = 2.2).
InitialStates ==
  { ReviewedOnTime([ s |-> 0, d |-> 0, interval |-> 0 ], ratings, 1) :
      ratings \in Histories }

\* The longest chain of calls.
MaxReviews == 2

InitTransition ==
  /\ nodes = INITIAL_DATA
  /\ now = StartTime
  /\ uuid = 0
  /\ NoProjection
  /\ fsrsData \in InitialStates
  /\ reviewCount = 0
  /\ lastCall = NoCall

\* The call has returned result (or thrown): a returned s and d become the
\* state of the next call.
Returned(rating, elapsedDays, r, result) ==
  /\ lastCall' = [ current |-> fsrsData, rating |-> rating,
                   elapsedDays |-> elapsedDays, r |-> r, result |-> result ]
  /\ fsrsData' = IF result = TypeError THEN fsrsData
                 ELSE [ s |-> result.s, d |-> result.d ]

Transition(rating, elapsedDays) ==
  /\ reviewCount < MaxReviews
  /\ reviewCount' = reviewCount + 1
  /\ Returned(rating, elapsedDays,
              currentRetrievability(fsrsData.s, elapsedDays),
              Schedule(fsrsData, rating, elapsedDays))
  /\ UNCHANGED << nodes, now, uuid, projection >>

NextTransition ==
  \E rating \in AnyRating, elapsedDays \in Elapsed :
    Transition(rating, elapsedDays)

SpecTransition == InitTransition /\ [][NextTransition]_vars

\* ------------------------------------------------------------------------
\* Actions of the tree's structure: addNode, updateNodeTitle, deleteNode,
\* toggleExpand and moveNode called in any order
\* ------------------------------------------------------------------------
\* An id that is not in the map.
Absent == "absent"

\* The map when the calls start: the initial data, as loaded or with its
\* due leaf reviewed.
TreeInputs ==
  { [ nodes |-> INITIAL_DATA, uuid |-> 0 ],
    [ nodes |-> review(INITIAL_DATA, "node-101", 3, Uuid(1), StartTime),
      uuid |-> 1 ] }

InitTree ==
  /\ \E input \in TreeInputs : nodes = input.nodes /\ uuid = input.uuid
  /\ now = StartTime
  /\ NoProjection
  /\ NoRetention

UpdateNodeTitle(id, title) ==
  /\ nodes' = updateNodeTitle(nodes, id, title)
  /\ UNCHANGED << now, uuid, projection, retention >>

DeleteNode(nodeId) ==
  /\ nodes' = deleteNode(nodes, nodeId)
  /\ UNCHANGED << now, uuid, projection, retention >>

ToggleExpand(id) ==
  /\ nodes' = toggleExpand(nodes, id)
  /\ UNCHANGED << now, uuid, projection, retention >>

Positions == {"top", "bottom"}

MoveNode(sourceId, targetId, position) ==
  /\ nodes' = moveNode(nodes, sourceId, targetId, position)
  /\ UNCHANGED << now, uuid, projection, retention >>

\* The nodes the model retitles and folds: the leaf of the initial data and
\* its parent.
Retitled == {"node-101", Absent}
Folded == {"subject-1", Absent}

\* The nodes the model adds a child to, and the nodes it drops a dragged
\* node on.
Parents == {"root", "subject-1", Absent}
Targets == {"subject-1", "node-101", Absent}

\* deleteNode is offered for every node but the root (NodeItem, App).
Deletable == (DOMAIN nodes \ {"root"}) \cup {Absent}

NextTree ==
  \/ \E parentId \in Parents, mode \in Modes : AddNode(parentId, "t", mode)
  \/ \E id \in Retitled : UpdateNodeTitle(id, "t")
  \/ \E nodeId \in Deletable : DeleteNode(nodeId)
  \/ \E id \in Folded : ToggleExpand(id)
  \/ \E sourceId \in DOMAIN nodes \cup {Absent}, targetId \in Targets,
          position \in Positions :
       MoveNode(sourceId, targetId, position)

SpecTree == InitTree /\ [][NextTree]_vars

\* ------------------------------------------------------------------------
\* Properties of the ledger and the scheduling state (Spec)
\* ------------------------------------------------------------------------
\* The state of the item is the replay of its ledger.
Replayed(id) ==
  nodes[id].fsrs = recalculateFSRS(nodes[id].logs, nodes[id].fsrs.due)

\* The step appends an entry with this rating and timestamp to the ledger
\* of the item.
Appended(id, rating, date) ==
  /\ uuid' = uuid + 1
  /\ id \in DOMAIN nodes'
  /\ Len(nodes'[id].logs) = Len(nodes[id].logs) + 1
  /\ nodes'[id].logs[Len(nodes'[id].logs)].rating = rating
  /\ nodes'[id].logs[Len(nodes'[id].logs)].reviewDate = date

\* C1: every item with a non-empty ledger has the scheduling state
\* (stability, difficulty, lastReview, due, status) that the replay of its
\* ledger, sorted ascending by reviewDate, gives from the zero state.
\* reviewComplete breaks it for a ledger that holds a later entry.
LedgerReplaysToState ==
  \A id \in DOMAIN nodes : nodes[id].logs # << >> => Replayed(id)

\* C2: for an item whose state is the replay of its ledger and a time now at
\* or after its lastReview, reviewComplete fed with
\* computeNextSchedule(state, rating, now) leaves the scheduling state that
\* the replay of the ledger with the entry (rating, now) appended gives.
FastPathEqualsReplay ==
  [][ \A id \in DOMAIN nodes, rating \in Ratings :
        ( /\ Appended(id, rating, now)
          /\ ReviewComplete(id, rating)
          /\ Replayed(id)
          /\ now >= nodes[id].fsrs.lastReview )
        => nodes'[id].fsrs =
             recalculateFSRS(Append(nodes[id].logs,
                                    [ id |-> Uuid(uuid + 1), rating |-> rating,
                                      reviewDate |-> now ]),
                             nodes[id].fsrs.due) ]_vars

\* A review at the current time has been logged on top of an earlier entry
\* and the state is the replay of the ledger.
FastPathOnReplayedLedger ==
  \E id \in DOMAIN nodes :
    /\ Len(nodes[id].logs) >= 2
    /\ nodes[id].logs[1].reviewDate < now
    /\ nodes[id].logs[Len(nodes[id].logs)].reviewDate = now
    /\ nodes[id].fsrs.lastReview = now
    /\ Replayed(id)

\* C3: for every item, the stability is 0 exactly when the ledger is empty,
\* and an item with an empty ledger has difficulty 0 and status new or
\* suspended.
ZeroStabilityIffEmptyLedger ==
  \A id \in DOMAIN nodes :
    /\ nodes[id].fsrs.s = 0 <=> nodes[id].logs = << >>
    /\ nodes[id].logs = << >> =>
         /\ nodes[id].fsrs.d = 0
         /\ nodes[id].fsrs.state \in {"new", "suspended"}

\* The ledger of node-101 has been emptied by deleteLog (its due date was
\* set then) while the root holds a reviewed ledger.
EmptiedBesideReviewed ==
  /\ nodes["node-101"].logs = << >>
  /\ nodes["node-101"].fsrs.due >= StartTime
  /\ nodes["node-101"].fsrs.s = 0
  /\ nodes["root"].logs # << >>
  /\ nodes["root"].fsrs.s > 0

\* The entries of a ledger with their positions.
Entries(logs) == { [ pos |-> i, log |-> logs[i] ] : i \in 1 .. Len(logs) }

\* e is folded before f: the earlier reviewDate, a tie by position.
Before(e, f) ==
  \/ e.log.reviewDate < f.log.reviewDate
  \/ e.log.reviewDate = f.log.reviewDate /\ e.pos <= f.pos

Earliest(entries) == CHOOSE e \in entries : \A f \in entries : Before(e, f)

\* The fold of a set of entries in ascending order of reviewDate.
RECURSIVE FoldAscending(_, _)
FoldAscending(cur, entries) ==
  IF cur.s < 0 \/ entries = {} THEN cur
  ELSE FoldAscending(ReplayStep(cur, Earliest(entries).log),
                     entries \ {Earliest(entries)})

DistinctDates(logs) ==
  \A i, j \in 1 .. Len(logs) : logs[i].reviewDate = logs[j].reviewDate => i = j

\* The orders of n entries.
Orders(n) == { p \in [1 .. n -> 1 .. n] : \A i, j \in 1 .. n : p[i] = p[j] => i = j }

\* The entries of logs inserted with addRetroactiveLog in the order p, from
\* the p[i]-th on.
RECURSIVE InsertInOrder(_, _, _, _, _)
InsertInOrder(ns, id, logs, p, i) ==
  IF id \notin DOMAIN ns \/ i > Len(logs) THEN ns
  ELSE InsertInOrder(addRetroactiveLog(ns, id, logs[p[i]].rating,
                                       logs[p[i]].reviewDate, logs[p[i]].id),
                     id, logs, p, i + 1)

Emptied(ns, id) == [ ns EXCEPT ![id].logs = << >> ]

PriorStates == { nodes[j].fsrs : j \in DOMAIN nodes } \cup {ZeroState(0)}

WithState(ns, id, prior) == [ ns EXCEPT ![id].fsrs = prior ]

Content(logs) ==
  [ i \in 1 .. Len(logs) |-> << logs[i].rating, logs[i].reviewDate >> ]

LatestReviewDate(logs) ==
  IF logs = << >> THEN 0
  ELSE CHOOSE t \in { logs[i].reviewDate : i \in 1 .. Len(logs) } :
         \A i \in 1 .. Len(logs) : logs[i].reviewDate <= t

\* C6: the lastReview of every item is the greatest reviewDate of its
\* ledger, and 0 when the ledger is empty.  reviewComplete breaks it for a
\* ledger that holds a future-dated entry.
LastReviewIsLatestEntry ==
  \A id \in DOMAIN nodes :
    nodes[id].fsrs.lastReview = LatestReviewDate(nodes[id].logs)

\* C7: deleteLog of the only entry of a ledger leaves the item with
\* stability 0, difficulty 0 and status new.
DeleteOnlyEntryResets ==
  [][ \A id \in DOMAIN nodes :
        \A logId \in LogIds(id) :
          Len(nodes[id].logs) = 1 /\ DeleteLog(id, logId)
          => /\ nodes'[id].logs = << >>
             /\ nodes'[id].fsrs.s = 0
             /\ nodes'[id].fsrs.d = 0
             /\ nodes'[id].fsrs.state = "new" ]_vars

\* The only entry of the root (suspended before it was logged) has been
\* deleted.
RootResetToNew ==
  /\ uuid > 0
  /\ nodes["root"].logs = << >>
  /\ nodes["root"].fsrs.state = "new"
  /\ nodes["root"].fsrs.s = 0
  /\ nodes["root"].fsrs.d = 0

\* ------------------------------------------------------------------------
\* Properties of the review queue (Spec)
\* ------------------------------------------------------------------------
DueSet ==
  { k \in DOMAIN nodes : /\ nodes[k].parentId # NULL
                         /\ nodes[k].fsrs.state # "suspended"
                         /\ nodes[k].fsrs.due <= now }

\* The position of a key in Object.values(nodes).
KeyIndex(k) == CHOOSE i \in 1 .. Len(KeyOrder) : KeyOrder[i] = k

\* q lists every due item once, ascending by due, equal due dates in the
\* order of the input, and neither the root nor a suspended item.
IsDueQueue(q) ==
  /\ { q[i] : i \in 1 .. Len(q) } = DueSet
  /\ Len(q) = Cardinality(DueSet)
  /\ \A i, j \in 1 .. Len(q) :
       i < j => \/ nodes[q[i]].fsrs.due < nodes[q[j]].fsrs.due
                \/ /\ nodes[q[i]].fsrs.due = nodes[q[j]].fsrs.due
                   /\ KeyIndex(q[i]) < KeyIndex(q[j])
  /\ \A i \in 1 .. Len(q) :
       q[i] # "root" /\ nodes[q[i]].fsrs.state # "suspended"

\* C8: the review queue at the time now is exactly the items that are not
\* the root, are not suspended and are due at or before now, ordered
\* ascending by due with ties in input order.
QueueIsDueSetInOrder == IsDueQueue(reviewQueue(nodes, now))

\* The sort has moved an item in front of one that precedes it in the
\* input.
QueueReordered ==
  \E i, j \in 1 .. Len(reviewQueue(nodes, now)) :
    /\ i < j
    /\ KeyIndex(reviewQueue(nodes, now)[i]) > KeyIndex(reviewQueue(nodes, now)[j])

\* ------------------------------------------------------------------------
\* Properties of the projection (SpecProjection)
\* ------------------------------------------------------------------------
\* The events of the schedule, each with its day and position.
Events ==
  UNION { { [ dateKey |-> k, pos |-> i, event |-> schedule[k][i] ] :
            i \in 1 .. Len(schedule[k]) } : k \in DOMAIN schedule }

\* C9: no event of the schedule, confirmed or projected, is dated after
\* now + daysToProject days.
NoEventBeyondHorizon == \A e \in Events : e.event.date <= rangeEnd

\* A finished projection holds a projected event at the very end of the
\* window.
ProjectedAtHorizonEnd ==
  /\ pc = "done"
  /\ daysToProject > 0
  /\ \E e \in Events : e.event.type = "projected" /\ e.event.date = rangeEnd

Projected(id) ==
  { e \in Events : e.event.nodeId = id /\ e.event.type = "projected" }

\* C10: the simulation loop runs at most 365 iterations for an item, and
\* the schedule holds at most 365 projected events of an item.
AtMostMaxSimulations ==
  /\ safetyCounter <= MaxSimulations
  /\ \A id \in DOMAIN nodes : Cardinality(Projected(id)) <= MaxSimulations

\* The cap has ended the loop of an item: 365 iterations, 365 projected
\* events, and the window still open.
CapReached ==
  /\ pc = "done"
  /\ safetyCounter = MaxSimulations
  /\ lastSimulatedReviewDate < rangeEnd
  /\ \E id \in DOMAIN nodes : Cardinality(Projected(id)) = MaxSimulations

\* The confirmed events of an item.
Confirmed(id) ==
  { e \in Events : e.event.nodeId = id /\ e.event.type = "confirmed" }

\* The item is neither the root, nor without a parent, nor suspended.
Eligible(id) ==
  /\ id # "root"
  /\ nodes[id].parentId # NULL
  /\ nodes[id].fsrs.state # "suspended"

\* C11 as claimed: in the returned schedule every eligible item with
\* max(due, now) <= rangeEnd has exactly one confirmed event, dated
\* max(due, now): the confirmed event of an overdue item is dated now.  The
\* code dates it with the due date itself.
ConfirmedAtEffectiveDate ==
  pc = "done" =>
    \A id \in DOMAIN nodes :
      Eligible(id) /\ Max(nodes[id].fsrs.due, now) <= rangeEnd
      => /\ Cardinality(Confirmed(id)) = 1
         /\ \A e \in Confirmed(id) : e.event.date = Max(nodes[id].fsrs.due, now)

\* C11, amended: in the returned schedule every eligible item with
\* due <= rangeEnd has exactly one confirmed event, dated with its due date
\* and filed under the day of that date, and an eligible item due later has
\* none.
ConfirmedAtDueDate ==
  pc = "done" =>
    \A id \in DOMAIN nodes :
      Eligible(id) =>
        IF nodes[id].fsrs.due <= rangeEnd
        THEN /\ Cardinality(Confirmed(id)) = 1
             /\ \A e \in Confirmed(id) :
                  /\ e.event.date = nodes[id].fsrs.due
                  /\ e.dateKey = DateKey(nodes[id].fsrs.due)
        ELSE Confirmed(id) = {}

\* A projection over a range that has not ended has returned a confirmed
\* event dated before now, under a day before today.
OverdueConfirmedInThePast ==
  /\ pc = "done"
  /\ daysToProject > 0
  /\ \E e \in Events :
       /\ e.event.type = "confirmed"
       /\ e.event.date < now
       /\ e.dateKey < DateKey(now)

\* C12: a projection with daysToProject <= 0 (rangeEnd <= now) returns an
\* empty schedule, whatever the items.  The code returns the confirmed event
\* of every eligible item that is due at or before rangeEnd.
EmptyForPastHorizon ==
  pc = "done" /\ daysToProject <= 0 => Events = {}

\* C13: an item that is due after rangeEnd has no event in the schedule,
\* confirmed or projected.
NoEventForItemDueBeyondHorizon ==
  \A id \in DOMAIN nodes :
    nodes[id].fsrs.due > rangeEnd => \A e \in Events : e.event.nodeId # id

\* A 14-day projection has returned events of subject-2 and none of
\* node-101, which is eligible and due 16 days from now.
DueBeyondHorizonLeftOut ==
  /\ pc = "done"
  /\ daysToProject = 14
  /\ Eligible("node-101")
  /\ nodes["node-101"].fsrs.due > rangeEnd
  /\ \A e \in Events : e.event.nodeId # "node-101"
  /\ \E e \in Events : e.event.nodeId = "subject-2"

\* C14: no step of generateReviewSchedule changes an item: the scheduling
\* state (state, s, d, due, lastReview) and the ledger of every item are
\* after the step what they were before it.
ProjectionReadOnly ==
  [][ /\ DOMAIN nodes' = DOMAIN nodes
      /\ \A id \in DOMAIN nodes :
           /\ nodes'[id].fsrs = nodes[id].fsrs
           /\ nodes'[id].logs = nodes[id].logs ]_vars

\* A projection has returned projected events of an item that is still new:
\* the simulated state holds a stability, the item none.
SimulatedBesideUnchanged ==
  /\ pc = "done"
  /\ \E e \in Events :
       /\ e.event.type = "projected"
       /\ nodes[e.event.nodeId].fsrs.state = "new"
       /\ nodes[e.event.nodeId].fsrs.s = 0
       /\ nodes[e.event.nodeId].logs = << >>
  /\ simulatedState.s > 0

\* C15: the schedule never holds an event of the root, of an item without a
\* parent or of a suspended item.
NoEventForSkippedItem ==
  \A e \in Events :
    /\ e.event.nodeId # "root"
    /\ nodes[e.event.nodeId].parentId # NULL
    /\ nodes[e.event.nodeId].fsrs.state # "suspended"

\* A projection has returned events although the root (reviewed, due within
\* the range) and a suspended item (due date 0) passed the range test.
SkippedWithinRange ==
  /\ pc = "done"
  /\ Events # {}
  /\ nodes["root"].fsrs.state = "review"
  /\ nodes["root"].fsrs.due <= rangeEnd
  /\ nodes["subject-1"].fsrs.state = "suspended"
  /\ nodes["subject-1"].fsrs.due <= rangeEnd

\* ------------------------------------------------------------------------
\* Properties of the retention model (SpecTransition)
\* ------------------------------------------------------------------------
\* The last call returned a scheduling result.
HasResult == reviewCount > 0 /\ lastCall.result # TypeError

\* A stored difficulty within [1, 10].
InBounds(d) == U4 <= d /\ d <= 10 * U4

\* C16: for every rating of 1 .. 4 and every current difficulty (0 on the
\* first review, else within [1, 10]) the difficulty a call returns lies in
\* [1, 10]; so does the difficulty of every state with a stability, after
\* any chain of calls.
DifficultyInBounds ==
  /\ HasResult /\ lastCall.rating \in Ratings => InBounds(lastCall.result.d)
  /\ fsrsData.s > 0 => InBounds(fsrsData.d)

\* An Again on a difficulty below 10 has returned the difficulty 10: the
\* clamp has cut the value.
DifficultyClampedAtTen ==
  /\ HasResult
  /\ lastCall.rating = 1
  /\ lastCall.current.s > 0
  /\ lastCall.current.d < 10 * U4
  /\ lastCall.result.d = 10 * U4

\* The due date reviewComplete sets for a review at t with the interval of
\* the result, as a distance from t.
DueAfter(result, rating, t) ==
  reviewComplete(INITIAL_DATA, "node-101", result.s, result.d, result.interval,
                 rating, Uuid(1), t)["node-101"].fsrs.due - t

\* C17: a call that returns a stability above 0 returns an interval of
\* 1 .. 36500 days, and the due date reviewComplete sets from it lies at
\* least one day and at most 36500 days after the review.
IntervalInBounds ==
  HasResult /\ lastCall.result.s > 0 =>
    /\ lastCall.result.interval \in 1 .. MaxInterval
    /\ DueAfter(lastCall.result, lastCall.rating, now) >= DAY
    /\ DueAfter(lastCall.result, lastCall.rating, now) <= MaxInterval * DAY

\* A call has returned a stability above 36500.5 days with the interval
\* 36500: the clamp has cut the rounded stability.
IntervalClampedAtMax ==
  /\ HasResult
  /\ lastCall.rating \in Ratings
  /\ lastCall.result.s > MaxInterval * U4 + U4
  /\ lastCall.result.interval = MaxInterval

\* The last call was a Good or an Easy review of a state with a stability,
\* after a time that left a retrievability below 1.
SuccessfulRecall ==
  /\ HasResult
  /\ lastCall.current.s > 0
  /\ lastCall.rating \in {3, 4}
  /\ lastCall.r < ONE

AMinuteOrMore ==
  \/ lastCall.elapsedDays[1] > Millis(60000)[1]
  \/ /\ lastCall.elapsedDays[1] = Millis(60000)[1]
     /\ lastCall.elapsedDays[2] >= Millis(60000)[2]

LapseLowersStability ==
  HasResult /\ lastCall.current.s > 0 /\ lastCall.rating = 1
  => lastCall.result.s < lastCall.current.s

\* C20: a call with a rating outside 1 .. 4 returns no scheduling result: it
\* ends in an error.  computeNextSchedule tests no rating; only a first
\* review with the rating 0 throws.
BadRatingRejected ==
  reviewCount > 0 /\ lastCall.rating \notin Ratings
  => lastCall.result = TypeError

\* ------------------------------------------------------------------------
\* Properties of the store's operations (Spec)
\* ------------------------------------------------------------------------
\* C21: a review at a time before the node's lastReview does not fail and
\* stores exactly the result of the transition at lastReview itself (the
\* elapsed days are clamped to 0); the entry, lastReview and the due date
\* carry the time of the review.
TransitionBeforeLastReviewClamped ==
  [][\A id \in DOMAIN nodes, rating \in Ratings :
       now < nodes[id].fsrs.lastReview /\ ReviewComplete(id, rating) =>
         /\ nodes'[id].fsrs.s > 0
         /\ nodes'[id].fsrs =
              Reviewed(computeNextSchedule(nodes[id].fsrs, rating,
                                           nodes[id].fsrs.lastReview), now)]_vars

\* A node has been reviewed at a time before its lastReview: the last entry
\* of its ledger is the review, dated before the entry in front of it, and
\* the state carries the time of the review.
ReviewedBeforeLastReview ==
  \E id \in DOMAIN nodes :
    LET logs == nodes[id].logs
    IN  /\ Len(logs) >= 2
        /\ logs[Len(logs)].reviewDate < logs[Len(logs) - 1].reviewDate
        /\ logs[Len(logs)].reviewDate = now
        /\ nodes[id].fsrs.lastReview = now
        /\ nodes[id].fsrs.state = "review"

\* ------------------------------------------------------------------------
\* Properties of the tree's structure (SpecTree)
\* ------------------------------------------------------------------------
\* k is x or lies under x: x is met on the way from k along parentId, in at
\* most n steps.
RECURSIVE Under(_, _, _, _)
Under(ns, k, x, n) ==
  IF k = x THEN TRUE
  ELSE IF n = 0 \/ k \notin DOMAIN ns THEN FALSE
       ELSE Under(ns, ns[k].parentId, x, n - 1)

\* x and its descendants.
Subtree(ns, x) ==
  { k \in DOMAIN ns : Under(ns, k, x, Cardinality(DOMAIN ns)) }

\* C22: deleteNode(x) for a node x other than the root removes exactly x and
\* its descendants from the map, takes x out of its parent's children and
\* leaves every other node, and the order of the parent's other children,
\* as they were; deleteNode of an id that is not in the map changes nothing.
DeleteNodeRemovesSubtree ==
  \A x \in Deletable :
    IF x \in DOMAIN nodes
    THEN /\ DOMAIN deleteNode(nodes, x) = DOMAIN nodes \ Subtree(nodes, x)
         /\ \A k \in DOMAIN nodes \ Subtree(nodes, x) :
              deleteNode(nodes, x)[k] =
                IF k = nodes[x].parentId
                THEN [ nodes[k] EXCEPT !.children =
                                         SelectSeq(@, LAMBDA c : c # x) ]
                ELSE nodes[k]
    ELSE deleteNode(nodes, x) = nodes

\* subject-1 has been deleted with everything under it; the root keeps its
\* other child.
SubtreeDeleted ==
  /\ DOMAIN nodes = {"root", "subject-2"}
  /\ nodes["root"].children = << "subject-2" >>

\* The number of positions of the array that hold x.
Count(array, x) == Cardinality({ i \in DOMAIN array : array[i] = x })

\* The map is a tree.
IsTree(ns) ==
  /\ "root" \in DOMAIN ns
  /\ \A k \in DOMAIN ns :
       /\ ns[k].id = k
       /\ ns[k].parentId = NULL <=> k = "root"
       /\ k # "root" =>
            /\ ns[k].parentId \in DOMAIN ns
            /\ Count(ns[ns[k].parentId].children, k) = 1
       /\ \A i \in DOMAIN ns[k].children :
            /\ ns[k].children[i] \in DOMAIN ns
            /\ ns[ns[k].children[i]].parentId = k
       /\ Under(ns, k, "root", Cardinality(DOMAIN ns))

\* C23: after any sequence of addNode, deleteNode (of nodes other than the
\* root) and moveNode from the initial data the map is a tree: every node
\* but the root has a parent in the map whose children hold it exactly once,
\* every child of a node is in the map with that node as its parent, the
\* root alone has no parent, and the way along parentId ends at the root.
CollectionIsTree == IsTree(nodes)

\* The first added node has been deleted, the second is a sibling of the
\* leaf of the initial data, and the root's children have been reordered.
AddedMovedAndDeleted ==
  /\ nodes["root"].children = << "subject-2", "subject-1" >>
  /\ "node-101" \in DOMAIN nodes
  /\ nodes["node-101"].logs = << >>
  /\ Uuid(1) \notin DOMAIN nodes
  /\ Uuid(2) \in DOMAIN nodes
  /\ nodes[Uuid(2)].parentId = "subject-1"

\* C24: addNode, updateNodeTitle, toggleExpand, moveNode and deleteNode
\* leave the scheduling state (state, s, d, due, lastReview) and the ledger
\* of every node that is in the map before and after the call unchanged.
StructureKeepsScheduling ==
  [][\A id \in DOMAIN nodes \cap DOMAIN nodes' :
       /\ nodes'[id].fsrs = nodes[id].fsrs
       /\ nodes'[id].logs = nodes[id].logs]_vars

\* The reviewed leaf keeps its state and its entry after it was retitled,
\* its parent folded, its grandparent's children reordered and a node added
\* to the map.
ReviewedLeafAfterEdits ==
  /\ "node-101" \in DOMAIN nodes
  /\ nodes["node-101"].fsrs.state = "review"
  /\ Len(nodes["node-101"].logs) = 1
  /\ nodes["node-101"].title = "t"
  /\ ~nodes["subject-1"].isExpanded
  /\ nodes["root"].children[1] = "subject-2"
  /\ Uuid(2) \in DOMAIN nodes

\* ------------------------------------------------------------------------
\* Further properties of the retention model (SpecTransition)
\* ------------------------------------------------------------------------
\* clamp(d - w[6] * (rating - 3), 1, 10) rounded to four decimals, d being a
\* stored difficulty.
ClampedUpdate(d, rating) ==
  ToFixed4(FromReal(Min(10 * ONE, Max(ONE, d * 1000 - W(6) * (rating - 3)))))

\* C25: for a state with a stability the returned difficulty is
\* clamp(d - w[6] * (rating - 3), 1, 10) rounded to four decimals and nothing
\* else; a Good review returns the difficulty it was given.  The code moves
\* the updated value towards 1 by the factor w[7] before it clamps.
DifficultyIsClampedUpdate ==
  HasResult /\ lastCall.current.s > 0 /\ lastCall.rating \in Ratings =>
    /\ lastCall.result.d = ClampedUpdate(lastCall.current.d, lastCall.rating)
    /\ lastCall.rating = 3 => lastCall.result.d = lastCall.current.d

\* The unrounded stability of the last call (lines 105-113).
UnroundedStability ==
  IF lastCall.current.s = 0 THEN FromReal(initialStability(lastCall.rating))
  ELSE nextStability(lastCall.current.s, lastCall.current.d, lastCall.r,
                     lastCall.rating)

\* calculateInterval of a stored stability.
IntervalOfStored(s) == calculateInterval(<< s, 0 >>)

\* C26 as claimed: the returned interval is calculateInterval of the
\* returned, rounded stability.  The code computes the interval from the
\* stability before the rounding.
IntervalOfReturnedStability ==
  HasResult => lastCall.result.interval = IntervalOfStored(lastCall.result.s)

\* C26, amended: the returned interval is calculateInterval of the unrounded
\* stability; calculateInterval of the returned stability is the same
\* number or one day more, and the same unless the returned stability is a
\* whole number of days and a half.
IntervalOfUnroundedStability ==
  HasResult =>
    /\ lastCall.result.interval = calculateInterval(UnroundedStability)
    /\ IntervalOfStored(lastCall.result.s) - lastCall.result.interval \in {0, 1}
    /\ lastCall.result.s % U4 # U4 \div 2 =>
         lastCall.result.interval = IntervalOfStored(lastCall.result.s)

\* A Good review has grown the stability 3.5817 to a little less than 4.5:
\* 4.5 is returned with the interval 4, and calculateInterval(4.5) is 5.
RoundedUpToHalfDay ==
  /\ HasResult
  /\ lastCall.rating = 3
  /\ lastCall.result.s = 4 * U4 + U4 \div 2
  /\ lastCall.result.interval = 4
  /\ IntervalOfStored(lastCall.result.s) = 5

\* ------------------------------------------------------------------------
\* Further properties of the projection (SpecProjection)
\* ------------------------------------------------------------------------
\* The simulated review each of the events follows, as the interval of the
\* event puts it.
PreviousReviews(events) ==
  { e.event.date - e.event.predictedInterval * DAY : e \in events }

EventDates(events) == { e.event.date : e \in events }

\* The projected events form one chain from the time start: every event lies
\* its own interval, of a day or more, after start or after another of the
\* events, and no two follow the same review or carry the same date.
ChainFrom(events, start) ==
  /\ \A e \in events : e.event.predictedInterval >= 1
  /\ Cardinality(EventDates(events)) = Cardinality(events)
  /\ Cardinality(PreviousReviews(events)) = Cardinality(events)
  /\ PreviousReviews(events) \subseteq EventDates(events) \cup {start}

\* C27: in the returned schedule the projected events of an item advance
\* strictly in simulated time: the first is dated max(due, now) plus its
\* interval in days, each later one the date of the one before plus its own
\* interval; the dates are strictly increasing and at least a day apart.
ProjectionAdvances ==
  pc = "done" =>
    \A id \in DOMAIN nodes :
      ChainFrom(Projected(id), Max(nodes[id].fsrs.due, now))

\* The returned schedule holds more than one projected event of an overdue
\* item: the chain starts now, not at the due date.
OverdueProjectedTwice ==
  /\ pc = "done"
  /\ \E id \in DOMAIN nodes :
       /\ nodes[id].fsrs.due < now
       /\ Cardinality(Projected(id)) >= 2

\* ------------------------------------------------------------------------
\* Further properties of the store's operations (Spec)
\* ------------------------------------------------------------------------
\* C28: deleteLog with an entry id that is not in the ledger of the node
\* leaves the ledger and the scheduling state of the node unchanged; a
\* suspended node with an empty ledger stays suspended and out of the queue.
\* The code replays the unchanged ledger and, when it is empty, sets the
\* state to new and the due date to now.
DeleteAbsentLogChangesNothing ==
  \A id \in DOMAIN nodes :
    /\ deleteLog(nodes, id, Absent, now)[id].logs = nodes[id].logs
    /\ deleteLog(nodes, id, Absent, now)[id].fsrs = nodes[id].fsrs

\* The node is in the queue at the time now.
InQueue(ns, id) ==
  \E i \in DOMAIN reviewQueue(ns, now) : reviewQueue(ns, now)[i] = id

\* The map after every node of the queue, in its order, has been reviewed
\* with the rating at the time now.
RECURSIVE ReviewAll(_, _, _, _)
ReviewAll(ns, queue, rating, i) ==
  IF i > Len(queue) THEN ns
  ELSE ReviewAll(review(ns, queue[i], rating, Uuid(uuid + i), now), queue,
                 rating, i + 1)

\* C29: right after reviewComplete has stored, at the time now, the values
\* computeNextSchedule returned for the node, the node is due a day after
\* now or later and is not in the queue at now; after every node of the
\* queue has been reviewed once the queue at that time is empty.
ReviewedLeavesQueue ==
  /\ \A id \in DOMAIN nodes :
       nodes[id].fsrs.state = "review" /\ nodes[id].fsrs.lastReview = now =>
         /\ nodes[id].fsrs.due >= now + DAY
         /\ ~InQueue(nodes, id)
  /\ \A rating \in Ratings :
       reviewQueue(ReviewAll(nodes, reviewQueue(nodes, now), rating, 1), now)
         = << >>

\* The leaf of the initial data, due at the load, has been reviewed now: it
\* is due in a day or later, and the queue is empty.
QueueEmptiedByReview ==
  /\ nodes["node-101"].fsrs.state = "review"
  /\ nodes["node-101"].fsrs.lastReview = now
  /\ nodes["node-101"].logs[Len(nodes["node-101"].logs)].reviewDate = now
  /\ nodes["node-101"].fsrs.due >= now + DAY
  /\ reviewQueue(nodes, now) = << >>

\* The map after addRetroactiveLog on the node and deleteLog of the entry it
\* added.
LogRoundTrip(id, rating, date) ==
  deleteLog(addRetroactiveLog(nodes, id, rating, date, Uuid(uuid + 1)),
            id, Uuid(uuid + 1), now)

\* C30: addRetroactiveLog on a node with an empty ledger followed by
\* deleteLog of that entry returns the node to the status it had, new or
\* suspended, with stability 0 and difficulty 0; a suspended node is not in
\* the queue afterwards.  deleteLog sets the status new and the due date
\* now, whatever the status was.
LedgerEditRoundTrips ==
  \A id \in DOMAIN nodes, rating \in RetroRatings, date \in RetroDates :
    nodes[id].logs = << >> =>
      /\ LogRoundTrip(id, rating, date)[id].fsrs.state = nodes[id].fsrs.state
      /\ LogRoundTrip(id, rating, date)[id].fsrs.s = 0
      /\ LogRoundTrip(id, rating, date)[id].fsrs.d = 0
      /\ nodes[id].fsrs.state = "suspended"
           => ~InQueue(LogRoundTrip(id, rating, date), id)

=============================================================================
